---- MODULE Spec2Model ----
(***************************************************************************)
(* TweetFlow AI dashboard (src/unnamed/part_001 = App.tsx,                 *)
(* src/services/geminiService.ts, src/unnamed/part_000 = types.ts).        *)
(*                                                                         *)
(* The model is the App component as a state machine: its useState cells,  *)
(* the auto-pilot interval ref, the browser's table of active interval     *)
(* timers, and the asynchronous calls that are in flight.  One action is   *)
(* one browser task: a user event handler together with the effects React  *)
(* runs for the state it has set, a timer callback up to its first await   *)
(* on the network, or the continuation of a settled network call.          *)
(*                                                                         *)
(* Text is a sequence of tokens (Text below); the tokens are cut so that   *)
(* "Error" never arises across a token boundary, which makes the           *)
(* substring test includes("Error") a test for the token, and trim() the   *)
(* removal of leading and trailing white-space tokens.                     *)
(***************************************************************************)
EXTENDS Integers, Sequences, FiniteSets, TLC

\* ------------------------------------------------------------------ bounds

\* Date.now() runs over StartTime .. StartTime + MaxTime.
StartTime == 100000000
MaxTime == 1
\* The queue holds at most MaxPosts posts, counting the auto-pilot requests
\* in flight, each of which adds one when it settles.
MaxPosts == 3
\* generateAutoTweet calls in flight at once.
MaxInflight == 2

\* --------------------------------------------------------------- constants

\* part_001:110, the age of the first sample post.
OneDayMs == 86400000
\* part_001:118, the delay of the second sample post.
OneHourMs == 3600000
\* part_001:202, the delay handleSchedule gives a post.
TwoHoursMs == 7200000

\* types.ts PostStatus
GENERATED == "GENERATED"
SCHEDULED == "SCHEDULED"
POSTED == "POSTED"
FAILED == "FAILED"

\* types.ts Tone: the two values the model's user picks among.
Tones == {"Professional", "Casual"}
\* The language field is free text: the two values the model's user types.
Languages == {"English", "Hausa"}
\* What the user types into the new-topic box.
TypedTopics == {"", "AI"}
\* MOCK_INTERESTS, imported at part_001:4 from the constants file: topic
\* names offered as suggestions, one of them in the initial list.
MockInterests == {"AI", "Web3"}

NullHandle == 0

\* -------------------------------------------------------------------- text

WhiteSpace == {" ", "\n"}

RECURSIVE TrimStart(_)
TrimStart(s) ==
  IF s # <<>> /\ Head(s) \in WhiteSpace THEN TrimStart(Tail(s)) ELSE s

RECURSIVE TrimEnd(_)
TrimEnd(s) ==
  IF s # <<>> /\ s[Len(s)] \in WhiteSpace
  THEN TrimEnd(SubSeq(s, 1, Len(s) - 1))
  ELSE s

\* String.prototype.trim
Trim(s) == TrimEnd(TrimStart(s))

\* String.prototype.includes for a needle that is one token.
Includes(s, needle) == \E i \in 1..Len(s) : s[i] = needle

\* ---------------------------------------------------------- geminiService

\* generateAutoTweet, line 65: the text returned without a request.
NoInterestsText == <<"I need interests to generate a tweet!">>
\* generateAutoTweet, line 85: the text for an empty response.
EmptyFallback(randomInterest) ==
  <<"Checking out the latest in ", randomInterest, "!">>
\* generateAutoTweet, line 88: the text for a failed request.
ErrorFallback(randomInterest) ==
  <<"Excited to learn more about ", randomInterest, "! #learning">>

ExampleTweet == <<"Exploring AI tools today. #AI">>

\* What ai.models.generateContent can answer to the auto-pilot prompt: a
\* response with text, a response whose text is undefined, or a rejection.
AutoResponses ==
  { [kind |-> "text", text |-> ExampleTweet],
    [kind |-> "text", text |-> <<" ">> \o ExampleTweet \o <<"\n">>],
    [kind |-> "text", text |-> <<" ", "\n">>],
    [kind |-> "text", text |-> <<>>],
    [kind |-> "undefined"],
    [kind |-> "throw"] }

\* The responses with which the request itself failed or brought no text.
FailedAutoResponses ==
  { r \in AutoResponses : r.kind # "text" \/ Trim(r.text) = <<>> }

\* generateAutoTweet from its try block on: the string it resolves to for
\* the topic it picked and the collaborator's answer.
GenerateAutoTweetResult(randomInterest, resp) ==
  IF resp.kind = "throw" THEN ErrorFallback(randomInterest)
  ELSE IF resp.kind = "text" /\ Trim(resp.text) # <<>> THEN Trim(resp.text)
  ELSE EmptyFallback(randomInterest)

\* What ai.models.generateContent can answer to the ideas prompt: text that
\* parses to an array of strings (the array is given), a response without
\* text, or a rejection, whose reason is an Error with a message or some
\* other value.
IdeaResponses ==
  { [kind |-> "json",
     ideas |-> << <<"Ship small, ship often. #Startup">>,
                  <<"Hooks changed how I write components. #React">> >>],
    [kind |-> "json",
     ideas |-> << <<"Error", " boundaries keep a React tree alive. #React">> >>],
    [kind |-> "notext"],
    [kind |-> "throw", isError |-> TRUE,
     message |-> <<"got status: 500 Internal Server ", "Error">>],
    [kind |-> "throw", isError |-> FALSE] }

\* The responses with which the collaborator failed: generateTweetIdeas
\* reaches its catch block.
FailedIdeaResponses == { r \in IdeaResponses : r.kind # "json" }

\* The catch block of generateTweetIdeas, lines 50-57.
IdeasFallback(interests, message) ==
  << <<"Could not connect to AI: ">> \o message \o <<". Check API Key.">>,
     <<"Here is a sample tweet about ",
       IF interests # <<>> /\ interests[1] # "" THEN interests[1] ELSE "tech",
       " generated locally as fallback.">> >>

\* generateTweetIdeas, lines 33-57, for a non-empty topic list: the array it
\* resolves to for the collaborator's answer.
GenerateTweetIdeasResult(interests, resp) ==
  CASE resp.kind = "json" -> resp.ideas
    [] resp.kind = "notext" ->
         IdeasFallback(interests, <<"Empty response from AI">>)
    [] resp.kind = "throw" ->
         IdeasFallback(interests,
                       IF resp.isError THEN resp.message
                       ELSE <<"Unknown error">>)

\* ------------------------------------------------------------------- state

VARIABLES
  user,                 \* useState<UserProfile>: isConnected, interests,
                        \* language, preferredTone, autoPilot
  posts,                \* useState<Tweet[]>
  generatedOptions,     \* useState<string[]>
  isGenerating,         \* useState(false)
  isConnecting,         \* useState(false); TRUE while the handshake timeout
                        \* of handleConnect is pending
  notified,             \* the entries the current task appended to
                        \* notifications (earlier toasts are dismissed; no
                        \* handler reads the list)
  autoPilotIntervalRef, \* useRef: the handle held, NullHandle for null
  timers,               \* the browser's active interval timers, each with
                        \* the user fields its callback closed over
  autoRequests,         \* generateAutoTweet calls awaiting the network, each
                        \* with the topic it picked
  ideaRequests,         \* generateTweetIdeas calls awaiting the network
  mounted,              \* the App component is mounted
  now                   \* Date.now()

vars == << user, posts, generatedOptions, isGenerating, isConnecting,
           notified, autoPilotIntervalRef, timers, autoRequests,
           ideaRequests, mounted, now >>

\* part_001:68-77
InitialUser ==
  [ isConnected |-> FALSE,
    interests |-> <<"React", "AI", "Startup">>,
    language |-> "English",
    preferredTone |-> "Professional",
    autoPilot |-> FALSE ]

Init ==
  /\ user = InitialUser
  /\ posts = <<>>
  /\ generatedOptions = <<>>
  /\ isGenerating = FALSE
  /\ isConnecting = FALSE
  /\ notified = <<>>
  /\ autoPilotIntervalRef = NullHandle
  /\ timers = {}
  /\ autoRequests = <<>>
  /\ ideaRequests = <<>>
  /\ mounted = TRUE
  /\ now = StartTime

\* ----------------------------------------------------------- notifications

EngagedMsg == <<"Auto-Pilot engaged. AI will post periodically.">>
DisengagedMsg == <<"Auto-Pilot disengaged.">>
AutoPostedMsg == <<"Auto-Pilot just posted a new tweet!">>
ConnectedMsg == <<"Successfully connected to Twitter account @alex_dev">>

\* What a handler hands to addNotification (message, type).
Note(message, type) == [message |-> message, type |-> type]

\* addNotification, part_001:91-94: the entry gets id Date.now().toString().
AddNotifications(notes, t) ==
  [ i \in 1..Len(notes) |->
      [id |-> t, message |-> notes[i].message, type |-> notes[i].type] ]

\* ------------------------------------------------------------------ timers

\* clearInterval(handle): the timer with that handle, if any, is no longer
\* active.
\* (Faulty variant: the call is handed something that is no timer's handle.)
ClearIntervalWrongHandle(ts, handle) == ts

ClearInterval(ts, handle) == { t \in ts : t.id # handle }

\* setInterval returns a handle no active timer has; the model takes the
\* least one that neither an active timer nor the ref holds, so that a stale
\* handle in the ref never names a later timer.
FreshHandle(ref, ts) ==
  LET used == { t.id : t \in ts } \cup {ref}
  IN CHOOSE n \in 1..(Cardinality(used) + 1) :
       n \notin used /\ \A m \in 1..(n - 1) : m \in used

\* The cleanup the auto-pilot effect returns, part_001:158-162: it clears
\* the timer whose handle the ref holds and leaves the ref as it is.
\* (Faulty variant: the effect returns no cleanup.)
CleanupSkipsClear(ref, ts) == ts

Cleanup(ref, ts) ==
  IF ref # NullHandle THEN ClearInterval(ts, ref) ELSE ts

\* part_001:127: the condition under which the effect starts the loop.
\* (Faulty variant: || for &&.)
StartConditionEitherFlag(u) == u.autoPilot \/ u.isConnected

StartCondition(u) == u.autoPilot /\ u.isConnected

\* part_001:128-149: the branch of the effect that starts the loop.
\* (Faulty variant: without the test of the ref at line 128.)
StartBranchUnguarded(u, ref, ts) ==
  LET h == FreshHandle(ref, ts)
  IN [ ref |-> h,
       timers |-> ts \cup { [ id |-> h, interests |-> u.interests,
                              language |-> u.language,
                              preferredTone |-> u.preferredTone ] },
       notes |-> << Note(EngagedMsg, "success") >> ]

StartBranch(u, ref, ts) ==
  IF ref = NullHandle
  THEN LET h == FreshHandle(ref, ts)
       IN [ ref |-> h,
            timers |-> ts \cup { [ id |-> h, interests |-> u.interests,
                                   language |-> u.language,
                                   preferredTone |-> u.preferredTone ] },
            notes |-> << Note(EngagedMsg, "success") >> ]
  ELSE [ ref |-> ref, timers |-> ts, notes |-> <<>> ]

\* part_001:150-156: the branch of the effect that stops the loop.
\* (Faulty variant: without the notification at line 154.)
StopBranchSilent(ref, ts) ==
  IF ref # NullHandle
  THEN [ ref |-> NullHandle, timers |-> ClearInterval(ts, ref),
         notes |-> <<>> ]
  ELSE [ ref |-> ref, timers |-> ts, notes |-> <<>> ]

StopBranch(ref, ts) ==
  IF ref # NullHandle
  THEN [ ref |-> NullHandle, timers |-> ClearInterval(ts, ref),
         notes |-> << Note(DisengagedMsg, "info") >> ]
  ELSE [ ref |-> ref, timers |-> ts, notes |-> <<>> ]

\* One re-run of the auto-pilot effect, part_001:126-163, for the user
\* state u just committed: the cleanup of the previous run, then the body.
AutoPilotEffect(u, ref, ts) ==
  LET cleared == Cleanup(ref, ts)
  IN IF StartCondition(u)
     THEN StartBranch(u, ref, cleared)
     ELSE StopBranch(ref, cleared)

\* The initial-data effect, part_001:103-123, run at time t.
SamplePosts(t) ==
  << [ id |-> 1,
       content |-> <<"Just deployed my first React 18 app! The concurrent features are game-changing. #ReactJS #WebDev">>,
       status |-> POSTED,
       createdAt |-> t - OneDayMs,
       likes |-> 42,
       retweets |-> 5 ],
     [ id |-> 2,
       content |-> <<"AI is not replacing developers, it is augmenting them. Learning to prompt is the new syntax. #AI #Coding">>,
       status |-> SCHEDULED,
       scheduledTime |-> t + OneHourMs,
       createdAt |-> t ] >>

\* ------------------------------------------------------------------- posts

\* part_001:135-142: the post the auto-pilot callback builds at time t.
NewAutoPost(tweetContent, t) ==
  [ id |-> t, content |-> tweetContent, status |-> POSTED,
    createdAt |-> t, likes |-> 0, retweets |-> 0 ]

\* setPosts(prev => [newPost, ...prev]), part_001:143, 204, 220.
\* (Faulty variant: [...prev, newPost].)
AppendPost(newPost, prev) == prev \o <<newPost>>

PrependPost(newPost, prev) == <<newPost>> \o prev

\* The room the bounds leave for one more post.
HasRoom == Len(posts) + Len(autoRequests) < MaxPosts

RemoveAt(s, k) == SubSeq(s, 1, k - 1) \o SubSeq(s, k + 1, Len(s))

\* ----------------------------------------------------------------- actions

\* A handler has set the user state to u; React commits it and re-runs the
\* auto-pilot effect, whose dependencies (part_001:163) are fields of u.
\* handlerNotes are the handler's own addNotification calls, which precede
\* the effect's.
CommitUser(u, handlerNotes) ==
  LET e == AutoPilotEffect(u, autoPilotIntervalRef, timers)
  IN /\ user' = u
     /\ autoPilotIntervalRef' = e.ref
     /\ timers' = e.timers
     /\ notified' = AddNotifications(handlerNotes \o e.notes, now)

\* handleConnect, part_001:167-175, up to the timeout it sets.  The connect
\* screen is what is rendered while the user is not connected (line 249) and
\* its button is loading while isConnecting.
HandleConnect ==
  /\ mounted /\ ~user.isConnected /\ ~isConnecting
  /\ isConnecting' = TRUE
  /\ notified' = <<>>
  /\ UNCHANGED << user, posts, generatedOptions, isGenerating,
                  autoPilotIntervalRef, timers, autoRequests, ideaRequests,
                  mounted, now >>

\* The timeout callback of handleConnect, part_001:170-174, and the two
\* effects that depend on user.isConnected.
ConnectTimeout ==
  /\ mounted /\ isConnecting
  /\ isConnecting' = FALSE
  /\ CommitUser([user EXCEPT !.isConnected = TRUE],
                << Note(ConnectedMsg, "success") >>)
  /\ posts' = IF user.isConnected THEN posts ELSE SamplePosts(now)
  /\ UNCHANGED << generatedOptions, isGenerating, autoRequests, ideaRequests,
                  mounted, now >>

\* toggleAutoPilot, part_001:243-245; the button is on the dashboard, which
\* is rendered once the user is connected.
ToggleAutoPilot ==
  /\ mounted /\ user.isConnected
  /\ CommitUser([user EXCEPT !.autoPilot = ~user.autoPilot], <<>>)
  /\ UNCHANGED << posts, generatedOptions, isGenerating, isConnecting,
                  autoRequests, ideaRequests, mounted, now >>

\* handleAddInterest, part_001:231-237, with newInterest the typed text.
\* (Faulty variant: without the test of newInterest at line 232.)
HandleAddInterestAllowsEmpty(newInterest) ==
  /\ mounted /\ user.isConnected
  /\ IF \A i \in 1..Len(user.interests) : user.interests[i] # newInterest
     THEN CommitUser(
            [user EXCEPT !.interests = Append(user.interests, newInterest)],
            << Note(<<"Added topic: ", newInterest>>, "success") >>)
     ELSE /\ notified' = <<>>
          /\ UNCHANGED << user, autoPilotIntervalRef, timers >>
  /\ UNCHANGED << posts, generatedOptions, isGenerating, isConnecting,
                  autoRequests, ideaRequests, mounted, now >>

HandleAddInterest(newInterest) ==
  /\ mounted /\ user.isConnected
  /\ IF newInterest # ""
        /\ \A i \in 1..Len(user.interests) : user.interests[i] # newInterest
     THEN CommitUser(
            [user EXCEPT !.interests = Append(user.interests, newInterest)],
            << Note(<<"Added topic: ", newInterest>>, "success") >>)
     ELSE /\ notified' = <<>>
          /\ UNCHANGED << user, autoPilotIntervalRef, timers >>
  /\ UNCHANGED << posts, generatedOptions, isGenerating, isConnecting,
                  autoRequests, ideaRequests, mounted, now >>

\* The button of a suggested topic, part_001:581-595.  A button is rendered
\* for a suggestion that is not in the list (line 581), which is also what
\* its handler tests (line 585) before it appends.
AddSuggestedTopic(suggestion) ==
  /\ mounted /\ user.isConnected
  /\ suggestion \in MockInterests
  /\ \A i \in 1..Len(user.interests) : user.interests[i] # suggestion
  /\ CommitUser(
       [user EXCEPT !.interests = Append(user.interests, suggestion)],
       << Note(<<"Added topic: ", suggestion>>, "success") >>)
  /\ UNCHANGED << posts, generatedOptions, isGenerating, isConnecting,
                  autoRequests, ideaRequests, mounted, now >>

\* Array.prototype.filter(i => i !== interest)
RECURSIVE Without(_, _)
Without(s, x) ==
  IF s = <<>> THEN <<>>
  ELSE IF Head(s) = x THEN Without(Tail(s), x)
  ELSE <<Head(s)>> \o Without(Tail(s), x)

\* removeInterest, part_001:239-241, from the button of a listed topic; the
\* filtered array is a new one, so the effect re-runs.
RemoveInterest(interest) ==
  /\ mounted /\ user.isConnected
  /\ \E i \in 1..Len(user.interests) : user.interests[i] = interest
  /\ CommitUser([user EXCEPT !.interests = Without(user.interests, interest)],
                <<>>)
  /\ UNCHANGED << posts, generatedOptions, isGenerating, isConnecting,
                  autoRequests, ideaRequests, mounted, now >>

\* The language inputs, part_001:424 and 605; a change event brings a value
\* other than the one shown.
SetLanguage(value) ==
  /\ mounted /\ user.isConnected
  /\ value # user.language
  /\ CommitUser([user EXCEPT !.language = value], <<>>)
  /\ UNCHANGED << posts, generatedOptions, isGenerating, isConnecting,
                  autoRequests, ideaRequests, mounted, now >>

\* The tone selects, part_001:411 and 613.
SetPreferredTone(value) ==
  /\ mounted /\ user.isConnected
  /\ value # user.preferredTone
  /\ CommitUser([user EXCEPT !.preferredTone = value], <<>>)
  /\ UNCHANGED << posts, generatedOptions, isGenerating, isConnecting,
                  autoRequests, ideaRequests, mounted, now >>

\* The interval callback, part_001:132-134, for a timer whose closure holds a
\* non-empty topic list: generateAutoTweet picks interests[i] (line 68) and
\* awaits the request.
TimerFires(t, i) ==
  /\ t \in timers
  /\ i \in 1..Len(t.interests)
  /\ HasRoom /\ Len(autoRequests) < MaxInflight
  /\ autoRequests' = Append(autoRequests, [randomInterest |-> t.interests[i]])
  /\ notified' = <<>>
  /\ UNCHANGED << user, posts, generatedOptions, isGenerating, isConnecting,
                  autoPilotIntervalRef, timers, ideaRequests, mounted, now >>

\* The interval callback for a timer whose closure holds no topic:
\* generateAutoTweet returns at line 65 without a request, and the callback
\* goes on (part_001:135-144) in the same task.
TimerFiresNoInterests(t) ==
  /\ t \in timers
  /\ t.interests = <<>>
  /\ HasRoom
  /\ posts' = PrependPost(NewAutoPost(NoInterestsText, now), posts)
  /\ notified' = AddNotifications(<< Note(AutoPostedMsg, "success") >>, now)
  /\ UNCHANGED << user, generatedOptions, isGenerating, isConnecting,
                  autoPilotIntervalRef, timers, autoRequests, ideaRequests,
                  mounted, now >>

\* The request of the k-th pending generateAutoTweet call settles with resp;
\* the callback goes on at part_001:135-144.  After unmount React drops the
\* state updates.
AutoTweetSettles(k, resp) ==
  /\ k \in 1..Len(autoRequests)
  /\ resp \in AutoResponses
  /\ autoRequests' = RemoveAt(autoRequests, k)
  /\ LET tweetContent ==
           GenerateAutoTweetResult(autoRequests[k].randomInterest, resp)
     IN IF mounted
        THEN /\ posts' = PrependPost(NewAutoPost(tweetContent, now), posts)
             /\ notified' =
                  AddNotifications(<< Note(AutoPostedMsg, "success") >>, now)
        ELSE UNCHANGED << posts, notified >>
  /\ UNCHANGED << user, generatedOptions, isGenerating, isConnecting,
                  autoPilotIntervalRef, timers, ideaRequests, mounted, now >>

\* Time passes; the toasts on screen are dismissed.
AdvanceClock ==
  /\ now < StartTime + MaxTime
  /\ now' = now + 1
  /\ notified' = <<>>
  /\ UNCHANGED << user, posts, generatedOptions, isGenerating, isConnecting,
                  autoPilotIntervalRef, timers, autoRequests, ideaRequests,
                  mounted >>

\* The component unmounts: React runs the effect's cleanup, part_001:158-162.
Unmount ==
  /\ mounted
  /\ mounted' = FALSE
  /\ timers' = Cleanup(autoPilotIntervalRef, timers)
  /\ notified' = <<>>
  /\ UNCHANGED << user, posts, generatedOptions, isGenerating, isConnecting,
                  autoPilotIntervalRef, autoRequests, ideaRequests, now >>

\* ---------------------------------------------------------- manual actions

NoInterestsMsg == <<"Please add at least one interest topic first.">>
GenerateFailedMsg == <<"Failed to generate ideas. Check API Key.">>
GeneratedMsg == <<"Generated new content ideas!">>
ScheduledMsg == <<"Tweet scheduled for later.">>
PublishedMsg == <<"Published successfully!">>
RemovedMsg == <<"Post removed.">>

\* handleGenerate, part_001:177-184, up to its await; the button is loading
\* while isGenerating.
HandleGenerate ==
  /\ mounted /\ user.isConnected /\ ~isGenerating
  /\ IF user.interests = <<>>
     THEN /\ notified' = AddNotifications(<< Note(NoInterestsMsg, "error") >>,
                                          now)
          /\ UNCHANGED << generatedOptions, isGenerating, ideaRequests >>
     ELSE /\ isGenerating' = TRUE
          /\ generatedOptions' = <<>>
          /\ ideaRequests' =
               Append(ideaRequests, [interests |-> user.interests])
          /\ notified' = <<>>
  /\ UNCHANGED << user, posts, isConnecting, autoPilotIntervalRef, timers,
                  autoRequests, mounted, now >>

\* part_001:187: what handleGenerate takes for a failed generation.
LooksFailed(results) == Len(results) > 0 /\ Includes(results[1], "Error")

\* The request of the k-th pending generateTweetIdeas call settles with
\* resp; handleGenerate goes on at part_001:186-193.
IdeasSettle(k, resp) ==
  /\ k \in 1..Len(ideaRequests)
  /\ resp \in IdeaResponses
  /\ ideaRequests' = RemoveAt(ideaRequests, k)
  /\ LET results == GenerateTweetIdeasResult(ideaRequests[k].interests, resp)
     IN IF mounted
        THEN /\ isGenerating' = FALSE
             /\ IF LooksFailed(results)
                THEN /\ notified' = AddNotifications(
                                      << Note(GenerateFailedMsg, "error") >>,
                                      now)
                     /\ UNCHANGED generatedOptions
                ELSE /\ generatedOptions' = results
                     /\ notified' = AddNotifications(
                                      << Note(GeneratedMsg, "success") >>, now)
        ELSE UNCHANGED << isGenerating, generatedOptions, notified >>
  /\ UNCHANGED << user, posts, isConnecting, autoPilotIntervalRef, timers,
                  autoRequests, mounted, now >>

\* part_001:197-203
NewScheduledPost(content, t) ==
  [ id |-> t, content |-> content, status |-> SCHEDULED, createdAt |-> t,
    scheduledTime |-> t + TwoHoursMs ]

\* part_001:212-219
NewPostedPost(content, t) ==
  [ id |-> t, content |-> content, status |-> POSTED, createdAt |-> t,
    likes |-> 0, retweets |-> 0 ]

\* handleSchedule, part_001:196-209, from the button of a listed candidate.
HandleSchedule(content) ==
  /\ mounted /\ user.isConnected
  /\ \E i \in 1..Len(generatedOptions) : generatedOptions[i] = content
  /\ HasRoom
  /\ posts' = PrependPost(NewScheduledPost(content, now), posts)
  /\ generatedOptions' = Without(generatedOptions, content)
  /\ notified' = AddNotifications(<< Note(ScheduledMsg, "success") >>, now)
  /\ UNCHANGED << user, isGenerating, isConnecting, autoPilotIntervalRef,
                  timers, autoRequests, ideaRequests, mounted, now >>

\* handlePostNow, part_001:211-224, from the button of a listed candidate.
HandlePostNow(content) ==
  /\ mounted /\ user.isConnected
  /\ \E i \in 1..Len(generatedOptions) : generatedOptions[i] = content
  /\ HasRoom
  /\ posts' = PrependPost(NewPostedPost(content, now), posts)
  /\ generatedOptions' = Without(generatedOptions, content)
  /\ notified' = AddNotifications(<< Note(PublishedMsg, "success") >>, now)
  /\ UNCHANGED << user, isGenerating, isConnecting, autoPilotIntervalRef,
                  timers, autoRequests, ideaRequests, mounted, now >>

\* posts.filter(p => p.id !== id)
\* (Faulty variant: the test inverted, p.id === id.)
RECURSIVE WithoutIdInverted(_, _)
WithoutIdInverted(ps, id) ==
  IF ps = <<>> THEN <<>>
  ELSE IF Head(ps).id # id THEN WithoutIdInverted(Tail(ps), id)
  ELSE <<Head(ps)>> \o WithoutIdInverted(Tail(ps), id)

RECURSIVE WithoutId(_, _)
WithoutId(ps, id) ==
  IF ps = <<>> THEN <<>>
  ELSE IF Head(ps).id = id THEN WithoutId(Tail(ps), id)
  ELSE <<Head(ps)>> \o WithoutId(Tail(ps), id)

\* The posts the queue view lists, part_001:501: the scheduled ones.
QueueView(ps) == SelectSeq(ps, LAMBDA p : p.status = SCHEDULED)

\* handleDeletePost, part_001:226-229, from the delete button of a post the
\* queue view lists (line 513); the filter runs over the whole queue.
HandleDeletePost(id) ==
  /\ mounted /\ user.isConnected
  /\ \E i \in 1..Len(QueueView(posts)) : QueueView(posts)[i].id = id
  /\ posts' = WithoutId(posts, id)
  /\ notified' = AddNotifications(<< Note(RemovedMsg, "info") >>, now)
  /\ UNCHANGED << user, generatedOptions, isGenerating, isConnecting,
                  autoPilotIntervalRef, timers, autoRequests, ideaRequests,
                  mounted, now >>

\* ---------------------------------------------------------- specifications

\* The whole component: every handler, timer and continuation above.
Next ==
  \/ HandleConnect
  \/ ConnectTimeout
  \/ ToggleAutoPilot
  \/ \E newInterest \in TypedTopics : HandleAddInterest(newInterest)
  \/ \E suggestion \in MockInterests : AddSuggestedTopic(suggestion)
  \/ \E i \in 1..Len(user.interests) : RemoveInterest(user.interests[i])
  \/ \E value \in Languages : SetLanguage(value)
  \/ \E value \in Tones : SetPreferredTone(value)
  \/ \E t \in timers : \E i \in 1..Len(t.interests) : TimerFires(t, i)
  \/ \E t \in timers : TimerFiresNoInterests(t)
  \/ \E k \in 1..Len(autoRequests) : \E resp \in AutoResponses :
       AutoTweetSettles(k, resp)
  \/ HandleGenerate
  \/ \E k \in 1..Len(ideaRequests) : \E resp \in IdeaResponses :
       IdeasSettle(k, resp)
  \/ \E i \in 1..Len(generatedOptions) : HandleSchedule(generatedOptions[i])
  \/ \E i \in 1..Len(generatedOptions) : HandlePostNow(generatedOptions[i])
  \/ \E i \in 1..Len(QueueView(posts)) :
       HandleDeletePost(QueueView(posts)[i].id)
  \/ AdvanceClock
  \/ Unmount

Spec == Init /\ [][Next]_vars

\* The product of the queue's contents with the configuration, the
\* candidates and the requests in flight is beyond an exhaustive search, so
\* the properties are checked under the two restrictions of Spec below, each
\* with the actions that read or write what its properties speak of.

\* The auto-pilot loop: connecting, the flag, the configuration the effect
\* depends on, the timer, the generation cycles, the clock and teardown.  The
\* actions left out (manual generation, the candidates' buttons, deleting a
\* post) neither read nor write the user state, the ref, the timers or the
\* requests of the loop.
NextLoop ==
  \/ HandleConnect
  \/ ConnectTimeout
  \/ ToggleAutoPilot
  \/ \E newInterest \in TypedTopics : HandleAddInterest(newInterest)
  \/ \E interest \in {"React", "AI", "Startup"} : RemoveInterest(interest)
  \/ \E value \in Languages : SetLanguage(value)
  \/ \E value \in Tones : SetPreferredTone(value)
  \/ \E t \in timers : \E i \in 1..Len(t.interests) : TimerFires(t, i)
  \/ \E t \in timers : TimerFiresNoInterests(t)
  \/ \E k \in 1..Len(autoRequests) : \E resp \in AutoResponses :
       AutoTweetSettles(k, resp)
  \/ AdvanceClock
  \/ Unmount

SpecLoop == Init /\ [][NextLoop]_vars

\* Manual generation: connecting, the topic list, handleGenerate and its
\* request, and the candidates' buttons; the flag stays off.
NextManual ==
  \/ HandleConnect
  \/ ConnectTimeout
  \/ \E newInterest \in TypedTopics : HandleAddInterest(newInterest)
  \/ \E interest \in {"React", "AI", "Startup"} : RemoveInterest(interest)
  \/ HandleGenerate
  \/ \E k \in 1..Len(ideaRequests) : \E resp \in IdeaResponses :
       IdeasSettle(k, resp)
  \/ \E i \in 1..Len(generatedOptions) : HandleSchedule(generatedOptions[i])
  \/ \E i \in 1..Len(generatedOptions) : HandlePostNow(generatedOptions[i])

SpecManual == Init /\ [][NextManual]_vars

\* The topic list: connecting, the flag, and the three ways the list is
\* edited (the typed topic, a suggested topic, the remove button of any
\* listed topic).
NextTopics ==
  \/ HandleConnect
  \/ ConnectTimeout
  \/ ToggleAutoPilot
  \/ \E newInterest \in TypedTopics : HandleAddInterest(newInterest)
  \/ \E suggestion \in MockInterests : AddSuggestedTopic(suggestion)
  \/ \E i \in 1..Len(user.interests) : RemoveInterest(user.interests[i])

SpecTopics == Init /\ [][NextTopics]_vars

\* The queue: connecting, the flag, one topic's removal, the auto-pilot
\* cycle, manual generation, the three ways a post is added, deleting a
\* post the queue view lists, and the clock.  What the queue's structure does not depend
\* on is narrowed: a cycle picks the first topic, and the collaborator
\* answers with text or fails.
QueueAutoResponses ==
  { r \in AutoResponses :
      r.kind = "throw" \/ (r.kind = "text" /\ r.text = ExampleTweet) }

QueueIdeaResponses ==
  { r \in IdeaResponses : r.kind = "json" /\ Len(r.ideas) = 2 }

NextQueue ==
  \/ HandleConnect
  \/ ConnectTimeout
  \/ ToggleAutoPilot
  \/ RemoveInterest("React")
  \/ \E t \in timers : TimerFires(t, 1)
  \/ \E k \in 1..Len(autoRequests) : \E resp \in QueueAutoResponses :
       AutoTweetSettles(k, resp)
  \/ HandleGenerate
  \/ \E k \in 1..Len(ideaRequests) : \E resp \in QueueIdeaResponses :
       IdeasSettle(k, resp)
  \/ \E i \in 1..Len(generatedOptions) : HandleSchedule(generatedOptions[i])
  \/ \E i \in 1..Len(generatedOptions) : HandlePostNow(generatedOptions[i])
  \/ \E i \in 1..Len(QueueView(posts)) :
       HandleDeletePost(QueueView(posts)[i].id)
  \/ AdvanceClock

SpecQueue == Init /\ [][NextQueue]_vars

\* ------------------------------------------------------------------ claims

\* The messages of a list of notifications, in order.
Messages(ns) == [ i \in 1..Len(ns) |-> ns[i].message ]

HasMessage(ns, m) == \E i \in 1..Len(ns) : ns[i].message = m

CountMessage(ns, m) == Cardinality({ i \in 1..Len(ns) : ns[i].message = m })

CountStatus(ps, st) == Cardinality({ i \in 1..Len(ps) : ps[i].status = st })

\* A timer callback starts: a generation cycle begins in this step.
TickStep ==
  \E t \in timers :
    \/ TimerFiresNoInterests(t)
    \/ \E i \in 1..Len(t.interests) : TimerFires(t, i)

\* The request of a cycle settles in this step.
SettleStep ==
  \E k \in 1..Len(autoRequests) : \E resp \in AutoResponses :
    AutoTweetSettles(k, resp)

\* C1: in every reachable state at most one interval timer of the
\* auto-pilot loop is active, however often the effect has re-run.
C1_AtMostOneTimer == Cardinality(timers) <= 1

\* The effect has re-run with a handle held (the flag is on, the ref is set,
\* the cleanup has cleared the timer) and no second timer exists.
C1_Witness ==
  /\ mounted /\ user.autoPilot
  /\ autoPilotIntervalRef # NullHandle
  /\ timers = {}

\* C2: the loop leaves Armed (an active timer) only when the flag becomes
\* false, the user is no longer connected, or the component is torn down; a
\* change of topics, language or tone with the flag on keeps it Armed.
C2_ArmedUntilStopped ==
  [][ (timers # {} /\ user'.autoPilot /\ user'.isConnected /\ mounted')
        => timers' # {} ]_vars

\* C3: a cycle can start (a timer is active, so a tick can fire) only while
\* autoPilot and isConnected are both true; after the flag is disabled no
\* timer, hence no scheduled tick, is left until it is enabled again.
C3_TickOnlyWhileEnabled ==
  timers # {} => (user.autoPilot /\ user.isConnected)

\* The flag has just gone from enabled to disabled and the timer is gone.
C3_Witness ==
  /\ ~user.autoPilot /\ user.isConnected
  /\ HasMessage(notified, DisengagedMsg)
  /\ timers = {}

\* C4: a cycle whose request fails or brings empty text leaves the queue
\* as long as it was and notifies nothing.
C4_FailedCycleSilent ==
  [][ \A k \in 1..Len(autoRequests) : \A resp \in FailedAutoResponses :
        AutoTweetSettles(k, resp)
          => (Len(posts') = Len(posts) /\ notified' = <<>>) ]_vars

\* C5: a cycle that starts with an empty topic list sends no request and
\* leaves the queue unchanged.
C5_EmptyTopicsNoPost ==
  [][ \A t \in timers :
        TimerFiresNoInterests(t)
          => (autoRequests' = autoRequests /\ posts' = posts) ]_vars

\* C6: a cycle whose request brought text puts exactly one post at the front
\* of the queue: Posted, likes 0, retweets 0, its content the text
\* generateAutoTweet returned (the response text, trimmed); the count of
\* Posted posts grows by one and the earlier posts follow in their order.
C6_SuccessfulCyclePrepends ==
  [][ \A k \in 1..Len(autoRequests) :
        \A resp \in AutoResponses \ FailedAutoResponses :
          (mounted /\ AutoTweetSettles(k, resp))
            => /\ Len(posts') = Len(posts) + 1
               /\ Tail(posts') = posts
               /\ Head(posts').status = POSTED
               /\ Head(posts').likes = 0
               /\ Head(posts').retweets = 0
               /\ Head(posts').content = Trim(resp.text)
               /\ CountStatus(posts', POSTED) = CountStatus(posts, POSTED) + 1
    ]_vars

\* A cycle has put the example tweet in front of the two sample posts.
C6_Witness ==
  /\ Len(posts) = 3
  /\ posts[1].content = ExampleTweet
  /\ posts[1].status = POSTED
  /\ posts[2].id = 1
  /\ posts[3].id = 2

\* C7: switching the flag on while connected notifies exactly "engaged" and
\* creates no post; switching it off notifies exactly "disengaged" and
\* creates no post; and no step other than a timer tick or the settling of a
\* tick's request creates a post of the loop or notifies for it.  So on and
\* then off with no tick in between leaves engaged, disengaged, in that
\* order, and no post.
C7_OnThenOff ==
  [][ /\ (~user.autoPilot /\ user'.autoPilot /\ user.isConnected)
           => /\ Messages(notified') = << EngagedMsg >>
              /\ posts' = posts /\ autoRequests' = autoRequests
      /\ (user.autoPilot /\ ~user'.autoPilot)
           => /\ Messages(notified') = << DisengagedMsg >>
              /\ posts' = posts /\ autoRequests' = autoRequests
      /\ (user'.autoPilot = user.autoPilot /\ ~TickStep /\ ~SettleStep)
           => /\ ~HasMessage(notified', EngagedMsg)
              /\ ~HasMessage(notified', DisengagedMsg)
              /\ ~HasMessage(notified', AutoPostedMsg)
              /\ (posts' = posts \/ posts = <<>>)
              /\ autoRequests' = autoRequests
    ]_vars

\* The flag has been switched on and off again, no cycle has run: the queue
\* holds the two sample posts and no request is pending.
C7_Witness ==
  /\ ~user.autoPilot
  /\ Messages(notified) = << DisengagedMsg >>
  /\ Len(posts) = 2
  /\ autoRequests = <<>>

\* C8: "Auto-Pilot engaged" is notified exactly in the steps that take the
\* loop from not running (no handle held) to running, once per such step,
\* and never in a step that re-evaluates the start condition while the
\* handle is held.
C8_EngagedOncePerStart ==
  [][ LET n == CountMessage(notified', EngagedMsg)
      IN /\ n <= 1
         /\ (n = 1) <=> (autoPilotIntervalRef = NullHandle
                         /\ autoPilotIntervalRef' # NullHandle)
         /\ (autoPilotIntervalRef = NullHandle
             /\ autoPilotIntervalRef' # NullHandle) => timers' # {}
    ]_vars

\* The start condition has been re-evaluated for a changed language while
\* the loop was running, and nothing was notified.
C8_Witness ==
  /\ mounted /\ user.autoPilot /\ user.isConnected
  /\ autoPilotIntervalRef # NullHandle
  /\ user.language # InitialUser.language
  /\ notified = <<>>
  /\ autoRequests = <<>>
  /\ Len(posts) = 2

\* C9: whenever a cycle can start, the topics, language and tone its timer
\* callback passes to generateAutoTweet are those of the user configuration
\* of that moment.
C9_CycleReadsCurrentConfig ==
  \A t \in timers :
    /\ t.interests = user.interests
    /\ t.language = user.language
    /\ t.preferredTone = user.preferredTone

\* A cycle has started from a timer armed after the configuration changed.
C9_Witness ==
  /\ \E t \in timers :
       /\ t.language # InitialUser.language
       /\ t.interests # InitialUser.interests
       /\ t.interests # <<>>
  /\ autoRequests # <<>>

HasType(ns, type) == \E i \in 1..Len(ns) : ns[i].type = type

\* C10: when the request of a manual generation fails, the user is notified
\* of an error and of no success, and the queue and the candidates shown are
\* as they were: no fallback text becomes a candidate.
C10_ManualFailureReported ==
  [][ \A k \in 1..Len(ideaRequests) : \A resp \in FailedIdeaResponses :
        (mounted /\ IdeasSettle(k, resp))
          => /\ HasType(notified', "error")
             /\ ~HasType(notified', "success")
             /\ posts' = posts
             /\ generatedOptions' = generatedOptions ]_vars

\* C11: in every reachable state the queue is ordered most-recent-first: of
\* any two posts the one nearer the front has a createdAt that is not earlier
\* than the other's.
C11_MostRecentFirst ==
  \A i \in 1..Len(posts) : \A j \in 1..Len(posts) :
    i < j => posts[i].createdAt >= posts[j].createdAt

InList(s, x) == \E i \in 1..Len(s) : s[i] = x

NoDuplicates(s) == \A i \in 1..Len(s) : \A j \in 1..Len(s) : s[i] = s[j] => i = j

\* C12: after any sequence of topic additions (typed or suggested) and
\* removals the topic list has no duplicate entry and no empty string; adding
\* an empty or already-present topic leaves the list unchanged, and removing
\* a topic leaves the list without it.
C12_TopicListWellFormed ==
  [][ /\ NoDuplicates(user'.interests)
      /\ ~InList(user'.interests, "")
      /\ \A newInterest \in TypedTopics :
           (HandleAddInterest(newInterest)
              /\ (newInterest = "" \/ InList(user.interests, newInterest)))
             => user'.interests = user.interests
      /\ \A i \in 1..Len(user.interests) :
           RemoveInterest(user.interests[i])
             => ~InList(user'.interests, user.interests[i]) ]_vars

\* A topic of the initial list has been removed and added again, and a
\* suggested topic has been added after it.
C12_Witness ==
  /\ Len(user.interests) = 4
  /\ user.interests[3] = "AI"
  /\ user.interests[4] = "Web3"

\* C13: when the flag has been switched off while a generation request is in
\* flight, the result of that request is discarded: the step in which it
\* settles, with the loop idle, prepends no post and emits no 'posted'
\* notification.
C13_InflightDiscarded ==
  [][ (SettleStep /\ mounted /\ ~user.autoPilot /\ timers = {})
        => /\ posts' = posts
           /\ ~HasMessage(notified', AutoPostedMsg) ]_vars

\* C14: at most one generation cycle is outstanding: a timer tick never
\* starts a cycle while the request of an earlier tick is still pending.
C14_OneCycleOutstanding ==
  [][ TickStep => autoRequests = <<>> ]_vars

\* C15: in every reachable state the ids of the posts in the queue are
\* pairwise distinct (so that deleting by id removes at most one post).
C15_DistinctIds ==
  \A i \in 1..Len(posts) : \A j \in 1..Len(posts) :
    posts[i].id = posts[j].id => i = j

\* C16: stopping is idempotent: a step taken while no timer is active emits
\* no 'disengaged' notification and leaves the ref as it was unless it starts
\* the loop, and a step of the mounted component in which the active timer
\* goes away emits exactly one 'disengaged' notification.
C16_StopIdempotent ==
  [][ /\ timers = {}
        => /\ ~HasMessage(notified', DisengagedMsg)
           /\ (timers' = {} => autoPilotIntervalRef' = autoPilotIntervalRef)
      /\ (timers # {} /\ timers' = {} /\ mounted')
        => CountMessage(notified', DisengagedMsg) = 1 ]_vars

\* C17: after teardown (the component has unmounted) no interval timer is
\* active, so no further tick can fire, whatever state the loop was in when
\* the component unmounted.
C17_NoTimerAfterUnmount == ~mounted => timers = {}

\* The component unmounted while the loop was armed: the ref still holds the
\* handle of the timer the cleanup cleared, and a request dispatched before
\* is still in flight.
C17_Witness ==
  /\ ~mounted
  /\ user.autoPilot /\ user.isConnected
  /\ autoPilotIntervalRef # NullHandle
  /\ autoRequests # <<>>

\* The posts of ps, unaltered and in order, are the tail of qs: whatever qs
\* has more is in front of them.
KeepsPosts(ps, qs) ==
  /\ Len(qs) >= Len(ps)
  /\ SubSeq(qs, Len(qs) - Len(ps) + 1, Len(qs)) = ps

\* C18: a post in the queue never changes and leaves the queue only through
\* a delete of its id: every step either keeps all posts as they are, with
\* any new post in front of them, or is handleDeletePost for a listed id and
\* keeps exactly the posts with another id, unaltered and in order.
C18_PostsOnlyLeaveByDelete ==
  [][ \/ KeepsPosts(posts, posts')
      \/ \E i \in 1..Len(posts) :
           /\ HandleDeletePost(posts[i].id)
           /\ posts' = SelectSeq(posts, LAMBDA p : p.id # posts[i].id) ]_vars

\* A scheduled post has been deleted by the last step: the post published
\* before is still at the front and the posted sample post, which no button
\* deletes, is behind it as it was stored on connecting.
C18_Witness ==
  /\ HasMessage(notified, RemovedMsg)
  /\ Len(posts) = 2
  /\ posts[1].status = POSTED /\ posts[1].id # 1
  /\ posts[2].id = 1 /\ posts[2].status = POSTED
  /\ posts[2].likes = 42 /\ posts[2].retweets = 5

====
